---- MODULE Spec2Model ----
(***************************************************************************)
(* A model of the djchat backend: the server listing endpoint              *)
(* (server/views.py, server/serializer.py) and the image lifecycle of      *)
(* Category and Server (server/models.py).                                 *)
(*                                                                         *)
(* Strings that the code inspects (query parameter values, category names) *)
(* are sequences of one-character strings, so that "true" and "True", or   *)
(* "1" and "x", are told apart by what the code does with them.  Python's  *)
(* None is the value None below, which is no such sequence.                *)
(*                                                                         *)
(* The Server table is read in primary-key order: the view's queryset has  *)
(* no order_by and the model no Meta.ordering, and a table scan of the     *)
(* database returns rows by primary key.                                   *)
(***************************************************************************)
EXTENDS Integers, Sequences, FiniteSets, TLC

VARIABLES
    categories,   \* the Category table: id -> [name, icon]
    servers,      \* the Server table and its membership join table:
                  \*   id -> [category, member, icon, banner]
    files,        \* the media storage: the set of stored file paths
    cache,        \* _result_cache of the class attribute ServerListViewSet.queryset
    request,      \* the listing request being answered, or NoRequest
    response,     \* its response, or NoResponse
    raised        \* what the last model save() or delete() raised ("" if nothing)

vars == <<categories, servers, files, cache, request, response, raised>>

-----------------------------------------------------------------------------
(* Bounds of the model.                                                    *)

MaxServers == 2
MaxUsers == 2

ServerIds == 1..MaxServers
Users == 1..MaxUsers

-----------------------------------------------------------------------------
(* Python values.                                                          *)

None == <<"None">>

\* The empty FieldFile (a null image column): falsy in Python.
NoFile == <<>>

\* bool(v) of a str-or-None value: None and "" are falsy.
Truthy(v) == v # None /\ v # <<>>

Digits == {"0", "1", "2", "3", "4", "5", "6", "7", "8", "9"}

DigitVal(c) ==
    CASE c = "0" -> 0 [] c = "1" -> 1 [] c = "2" -> 2 [] c = "3" -> 3
      [] c = "4" -> 4 [] c = "5" -> 5 [] c = "6" -> 6 [] c = "7" -> 7
      [] c = "8" -> 8 [] c = "9" -> 9

\* The digits of an integer literal, after its optional sign.
Unsigned(s) == IF Len(s) > 0 /\ s[1] \in {"+", "-"} THEN Tail(s) ELSE s

\* Whether int(s) returns; otherwise it raises ValueError.
IsIntLiteral(s) ==
    /\ Len(Unsigned(s)) > 0
    /\ \A i \in 1..Len(Unsigned(s)) : Unsigned(s)[i] \in Digits

RECURSIVE NatOf(_)
NatOf(ds) ==
    IF ds = <<>> THEN 0
    ELSE 10 * NatOf(SubSeq(ds, 1, Len(ds) - 1)) + DigitVal(ds[Len(ds)])

\* int(s), for s with IsIntLiteral(s).
IntOf(s) == IF s[1] = "-" THEN 0 - NatOf(Unsigned(s)) ELSE NatOf(Unsigned(s))

-----------------------------------------------------------------------------
(* The requests of the model.                                              *)

StrTrue == <<"t", "r", "u", "e">>

CategoryNames == << <<"g">>, <<"G">> >>
CategoryIds == DOMAIN CategoryNames

CategoryValues == {None, <<>>, <<"g">>, <<"G">>}
QtyValues == {None, <<"1">>, <<"2">>, <<"x">>}
FlagValues == {None, StrTrue, <<"T", "r", "u", "e">>}
ServerIdValues == {None, <<"1">>, <<"2">>, <<"x">>}

\* request.user: AnonymousUser (whose id is None, written 0 here) or an account.
AnonymousUser == [is_authenticated |-> FALSE, id |-> 0]
Account(u) == [is_authenticated |-> TRUE, id |-> u]
Callers == {AnonymousUser, Account(1)}

\* request.query_params.get(k) for each k the view reads, and request.user.
Requests ==
    [category : CategoryValues, qty : QtyValues, by_user : FlagValues,
     by_serverid : ServerIdValues, with_num_members : FlagValues,
     user : Callers]

NoRequest == [none |-> TRUE]
NoResponse == [none |-> TRUE]

-----------------------------------------------------------------------------
(* Querysets.  A QuerySet is lazy: it is a description of a query, and     *)
(* filter(), annotate() and a slice return a new description.  Python      *)
(* resolves self.queryset to the class attribute until the handler assigns *)
(* to it, so the handler starts from the one QuerySet object the class     *)
(* holds, whose rows, once fetched, stay in its _result_cache.             *)

NoLimit == 0 - 1

\* A _result_cache of None: the queryset has not been evaluated.
NotFetched == [fetched |-> FALSE, rows |-> <<>>]

\* Server.objects.all(), the class attribute.  category is the name asked of
\* category__name (None: not filtered), member the user ids asked of member and
\* pk the ids asked of id (empty: not filtered), stop the LIMIT of a slice.
ClassQueryset ==
    [kind |-> "QuerySet", shared |-> TRUE, category |-> None, member |-> {},
     annotated |-> FALSE, stop |-> NoLimit, pk |-> {}, items |-> <<>>]

\* qs.filter(...), qs.annotate(...), qs[:n] return a clone, and a clone has no
\* _result_cache.
Chain(qs) == [qs EXCEPT !.shared = FALSE]

FilterCategory(qs, category) == [Chain(qs) EXCEPT !.category = category]

FilterMember(qs, user_id) == [Chain(qs) EXCEPT !.member = {user_id}]

\* annotate(num_members=Count("member"))
Annotate(qs) == [Chain(qs) EXCEPT !.annotated = TRUE]

FilterId(qs, id) == [Chain(qs) EXCEPT !.pk = {id}]

\* The primary keys in ascending order.
PkOrder == [i \in ServerIds |-> i]

Prefix(s, n) == SubSeq(s, 1, IF n < Len(s) THEN n ELSE Len(s))

\* Whether the row of server i satisfies the WHERE clause of qs.
Selects(qs, i) ==
    /\ qs.category = None \/ categories[servers[i].category].name = qs.category
    /\ qs.member \subseteq servers[i].member
    /\ qs.pk = {} \/ i \in qs.pk

\* Count("member"): the rows of the join with the membership table in the
\* server's group.  annotate() reuses the join that filter(member=...) made,
\* whose rows are the ones that filter kept.
CountMember(qs, i) ==
    IF qs.member = {} THEN Cardinality(servers[i].member)
    ELSE Cardinality(servers[i].member \cap qs.member)

\* The model instance of a row.  The serializer's Meta excludes "member", and
\* the owner, name and description columns play no part in the listing, so an
\* instance carries the remaining columns, and num_members when annotated.
Instance(qs, i) ==
    IF qs.annotated
    THEN [id |-> i, category |-> servers[i].category,
          icon |-> servers[i].icon, banner |-> servers[i].banner,
          num_members |-> CountMember(qs, i)]
    ELSE [id |-> i, category |-> servers[i].category,
          icon |-> servers[i].icon, banner |-> servers[i].banner]

\* The rows the database returns for qs.
Fetch(qs) ==
    LET Selected(i) == i \in DOMAIN servers /\ Selects(qs, i)
        ids == SelectSeq(PkOrder, Selected)
        kept == IF qs.stop = NoLimit THEN ids ELSE Prefix(ids, qs.stop)
    IN [k \in 1..Len(kept) |-> Instance(qs, kept[k])]

\* Iterating qs (or a list), with c the state of the class's queryset:
\* that cache when qs is the class's queryset and has one, the database
\* otherwise.
Rows(qs, c) ==
    IF qs.kind = "list" THEN qs.items
    ELSE IF qs.shared /\ c.fetched THEN c.rows
    ELSE Fetch(qs)

\* qs[:n] for n >= 0: a slice of the _result_cache when qs has one (a Python
\* list), a clone with LIMIT n otherwise.
Slice(qs, n, c) ==
    IF qs.shared /\ c.fetched
    THEN [qs EXCEPT !.kind = "list", !.shared = FALSE, !.items = Prefix(c.rows, n)]
    ELSE [Chain(qs) EXCEPT !.stop = n]

-----------------------------------------------------------------------------
(* ServerSerializer.                                                       *)

get_num_members(obj) ==
    IF "num_members" \in DOMAIN obj THEN obj.num_members ELSE None

\* ModelSerializer.to_representation: every declared field of the instance.
\* (channel_server, the nested channels, is not modelled.)
FieldsOf(obj) ==
    [id |-> obj.id, category |-> obj.category, icon |-> obj.icon,
     banner |-> obj.banner, num_members |-> get_num_members(obj)]

Pop(data, key) == [k \in DOMAIN data \ {key} |-> data[k]]

\* A to_representation that never drops num_members, which C4 must tell from
\* the serializer's.
to_representation_keeps(instance, context) == FieldsOf(instance)

to_representation(instance, context) ==
    IF ~context.num_members
    THEN Pop(FieldsOf(instance), "num_members")
    ELSE FieldsOf(instance)

\* ServerSerializer(rows, many=True, context=...).data
SerializerData(rows, context) ==
    [k \in 1..Len(rows) |-> to_representation(rows[k], context)]

-----------------------------------------------------------------------------
(* ServerListViewSet.list, stage by stage.  A stage returns the queryset   *)
(* the handler holds in self.queryset after it, or the exception it raised.*)

Proceed(qs) == [exc |-> "", qs |-> qs, detail |-> None]
Raise(exc, detail) == [exc |-> exc, qs |-> ClassQueryset, detail |-> detail]

by_user(req) == req.by_user = StrTrue
with_num_members(req) == req.with_num_members = StrTrue

CategoryStage(qs, req, c) ==
    IF Truthy(req.category)
    THEN Proceed(FilterCategory(qs, req.category))
    ELSE Proceed(qs)

\* A by_user stage that does not ask whether the caller is authenticated, which
\* C2 must tell from the handler's.
ByUserStageUnchecked(qs, req, c) ==
    IF by_user(req)
    THEN Proceed(FilterMember(qs, req.user.id))
    ELSE Proceed(qs)

ByUserStage(qs, req, c) ==
    IF by_user(req)
    THEN IF by_user(req) /\ req.user.is_authenticated
         THEN Proceed(FilterMember(qs, req.user.id))
         ELSE Raise("AuthenticationFailed", None)
    ELSE Proceed(qs)

AnnotateStage(qs, req, c) ==
    IF with_num_members(req) THEN Proceed(Annotate(qs)) ELSE Proceed(qs)

\* self.queryset[: int(qty)]: int() raises ValueError on a malformed literal,
\* and a negative stop raises ValueError ("Negative indexing is not supported").
QtyStage(qs, req, c) ==
    IF Truthy(req.qty)
    THEN IF ~IsIntLiteral(req.qty) THEN Raise("ValueError", req.qty)
         ELSE IF IntOf(req.qty) < 0 THEN Raise("ValueError", req.qty)
         ELSE Proceed(Slice(qs, IntOf(req.qty), c))
    ELSE Proceed(qs)

\* A server-id stage with neither the except ValueError clause nor the exists()
\* check, which C6 must tell from the handler's.
ServerIdStageUncaught(qs, req, c) ==
    IF Truthy(req.by_serverid)
    THEN IF qs.kind = "list" THEN Raise("AttributeError", None)
         ELSE IF qs.stop # NoLimit THEN Raise("TypeError", None)
         ELSE IF ~IsIntLiteral(req.by_serverid)
              THEN Raise("ValueError", req.by_serverid)
         ELSE LET found == FilterId(qs, IntOf(req.by_serverid))
              IN Proceed(found)
    ELSE Proceed(qs)

\* filter(id=by_serverid) and exists(), inside try ... except ValueError.
\* A list has no filter (AttributeError); a sliced QuerySet refuses to be
\* filtered (TypeError, "Cannot filter a query once a slice has been taken";
\* an AssertionError before Django 4.0), before it looks at the value; the id column's int() of a malformed value
\* raises ValueError, which the handler turns into the ValidationError.
ServerIdStage(qs, req, c) ==
    IF Truthy(req.by_serverid)
    THEN IF qs.kind = "list" THEN Raise("AttributeError", None)
         ELSE IF qs.stop # NoLimit THEN Raise("TypeError", None)
         ELSE IF ~IsIntLiteral(req.by_serverid)
              THEN Raise("ValidationError", req.by_serverid)
         ELSE LET found == FilterId(qs, IntOf(req.by_serverid))
              IN IF Rows(found, c) = <<>>
                 THEN Raise("ValidationError", req.by_serverid)
                 ELSE Proceed(found)
    ELSE Proceed(qs)

\* The stages in the handler's order; an exception ends the handler.
Narrow(req, c) ==
    LET s1 == CategoryStage(ClassQueryset, req, c)
        s2 == IF s1.exc # "" THEN s1 ELSE ByUserStage(s1.qs, req, c)
        s3 == IF s2.exc # "" THEN s2 ELSE AnnotateStage(s2.qs, req, c)
        s4 == IF s3.exc # "" THEN s3 ELSE QtyStage(s3.qs, req, c)
    IN IF s4.exc # "" THEN s4 ELSE ServerIdStage(s4.qs, req, c)

\* The response to req, whose stages ended in out: the serialized rows, or the
\* exception.  The framework reports AuthenticationFailed and ValidationError
\* to the caller as error responses; any other exception is unhandled (a
\* server error).
Respond(out, req, c) ==
    IF out.exc # ""
    THEN [exc |-> out.exc, data |-> <<>>, detail |-> out.detail]
    ELSE [exc |-> "",
          data |-> SerializerData(Rows(out.qs, c),
                                  [num_members |-> with_num_members(req)]),
          detail |-> None]

\* Serializing iterates the queryset; when that is the class's queryset, its
\* rows stay in its _result_cache.
CacheAfter(out, c) ==
    IF out.exc = "" /\ out.qs.kind = "QuerySet" /\ out.qs.shared /\ ~c.fetched
    THEN [fetched |-> TRUE, rows |-> Fetch(out.qs)]
    ELSE c

-----------------------------------------------------------------------------
(* Actions.                                                                *)

Idle == request = NoRequest

\* ServerListViewSet.list: a new view instance answers req.  What the stages
\* assign to self.queryset is an attribute of that instance; the class
\* attribute keeps its query, and gains its rows when it is the one iterated.
List(req) ==
    /\ request' = req
    /\ LET out == Narrow(req, cache)
       IN /\ response' = Respond(out, req, cache)
          /\ cache' = CacheAfter(out, cache)
    /\ UNCHANGED <<categories, servers, files, raised>>

\* The response is sent and the view instance dropped.
Close ==
    /\ ~Idle
    /\ request' = NoRequest
    /\ response' = NoResponse
    /\ UNCHANGED <<categories, servers, files, cache, raised>>

\* server.member.add(u), server.member.remove(u): the membership join table.
MemberAdd(i, u) ==
    /\ i \in DOMAIN servers
    /\ u \notin servers[i].member
    /\ servers' = [servers EXCEPT ![i].member = @ \cup {u}]
    /\ UNCHANGED <<categories, files, cache, request, response, raised>>

MemberRemove(i, u) ==
    /\ i \in DOMAIN servers
    /\ u \in servers[i].member
    /\ servers' = [servers EXCEPT ![i].member = @ \ {u}]
    /\ UNCHANGED <<categories, files, cache, request, response, raised>>

-----------------------------------------------------------------------------
(* Image files (server/models.py).  A FieldFile is its name: a stored path,*)
(* NoFile for an empty field, or, for an upload not yet saved, the bare    *)
(* file name the client gave.                                              *)

\* server/{id}/server_icon/{filename}; the id of an unsaved instance is None,
\* written 0.
server_icon_upload_path(id, filename) == <<"server", id, "server_icon", filename>>

\* server/{id}/server_banner/{filename}
server_banner_upload_path(id, filename) == <<"server", id, "server_banner", filename>>

\* category/{id}/category_icon/{filename}
category_icon_upload_path(id, filename) == <<"category", id, "category_icon", filename>>

\* The file names of the uploads of the model.
FileNames == {"a", "b"}

\* What a save() is given for an image field: the stored file as it is, an
\* empty field, or an upload.
Keep == "keep"
Clear == "clear"
ImageInputs == {Keep, Clear} \cup FileNames

\* The field's value on the instance being saved.
Assigned(stored, input) ==
    IF input = Keep THEN stored
    ELSE IF input = Clear THEN NoFile
    ELSE <<input>>

\* FieldFile.delete(save=False) of each file among fs; an empty FieldFile
\* deletes nothing.
DeleteFiles(fs) == files \ {f \in fs : f # NoFile}

\* Storage.get_available_name: the path, or the path with a suffix when a file
\* of that name is stored.
AvailableName(path, stored) ==
    IF path \notin stored THEN path
    ELSE LET k == CHOOSE n \in 1..(Cardinality(stored) + 1) :
                    /\ Append(path, n) \notin stored
                    /\ \A m \in 1..(n - 1) : Append(path, m) \in stored
         IN Append(path, k)

\* FileField.pre_save, within Model.save(): an upload is stored under its
\* upload path and the column takes that name; any other value is kept.
Committed(path, input, value, stored) ==
    IF input \in FileNames THEN AvailableName(path, stored) ELSE value

StoredAfter(path, input, stored) ==
    IF input \in FileNames THEN stored \cup {AvailableName(path, stored)} ELSE stored

\* An id the database gives a new row.
NewCategoryId == CHOOSE k \in CategoryIds : k \notin DOMAIN categories

\* Category.save(), of an instance with the given id (0: None, a new
\* category), name and icon.
CategorySave(id, name, input) ==
    IF id # 0 /\ id \notin DOMAIN categories
    THEN \* get_object_or_404
         /\ raised' = "Http404"
         /\ UNCHANGED <<categories, servers, files, cache, request, response>>
    ELSE LET existing == IF id # 0 THEN categories[id].icon ELSE NoFile
             icon == Assigned(existing, input)
             kept == IF id # 0 /\ existing # icon
                     THEN DeleteFiles({existing})
                     ELSE files
             pk == IF id # 0 THEN id ELSE NewCategoryId
             path == category_icon_upload_path(id, input)
             row == [name |-> name, icon |-> Committed(path, input, icon, kept)]
         IN /\ id = 0 => input # Keep /\ DOMAIN categories # CategoryIds
            /\ files' = StoredAfter(path, input, kept)
            /\ categories' = [k \in DOMAIN categories \cup {pk} |->
                                 IF k = pk THEN row ELSE categories[k]]
            /\ raised' = ""
            /\ UNCHANGED <<servers, cache, request, response>>

\* category.delete(): the pre_delete receiver of Category deletes its icon;
\* the servers of the category go with it (on_delete=CASCADE), each through
\* the pre_delete receiver of Server.
CategoryDelete(k) ==
    LET gone == {i \in DOMAIN servers : servers[i].category = k}
    IN /\ k \in DOMAIN categories
       /\ files' = DeleteFiles({categories[k].icon}
                               \cup {servers[i].icon : i \in gone}
                               \cup {servers[i].banner : i \in gone})
       /\ categories' = [j \in DOMAIN categories \ {k} |-> categories[j]]
       /\ servers' = [j \in DOMAIN servers \ gone |-> servers[j]]
       /\ raised' = ""
       /\ UNCHANGED <<cache, request, response>>

\* Server.save(), of an instance with the given id (0: None, a new server),
\* icon and banner.  super(Category, self) raises TypeError, self being no
\* Category, so Model.save() is never reached: no row is written and no
\* upload stored.
ServerSave(id, icon_input, banner_input) ==
    IF id # 0 /\ id \notin DOMAIN servers
    THEN \* get_object_or_404
         /\ raised' = "Http404"
         /\ UNCHANGED <<categories, servers, files, cache, request, response>>
    ELSE LET existing == IF id # 0 THEN servers[id]
                         ELSE [icon |-> NoFile, banner |-> NoFile]
             icon == Assigned(existing.icon, icon_input)
             banner == Assigned(existing.banner, banner_input)
             gone == (IF id # 0 /\ existing.icon # icon
                      THEN {existing.icon} ELSE {})
                     \cup
                     (IF id # 0 /\ existing.banner # banner
                      THEN {existing.banner} ELSE {})
         IN /\ id = 0 => icon_input # Keep /\ banner_input # Keep
            /\ files' = DeleteFiles(gone)
            /\ raised' = "TypeError"
            /\ UNCHANGED <<categories, servers, cache, request, response>>

\* server.delete(): the pre_delete receiver deletes the icon and banner files,
\* then the row and its membership rows go.
ServerDelete(i) ==
    /\ i \in DOMAIN servers
    /\ files' = DeleteFiles({servers[i].icon, servers[i].banner})
    /\ servers' = [j \in DOMAIN servers \ {i} |-> servers[j]]
    /\ raised' = ""
    /\ UNCHANGED <<categories, cache, request, response>>

-----------------------------------------------------------------------------
(* The initial state: the categories and servers that exist when the       *)
(* process starts, each server with a stored icon and banner and no member.*)

InitialServer(i) ==
    [category |-> ((i - 1) % Len(CategoryNames)) + 1, member |-> {},
     icon |-> server_icon_upload_path(i, "a"),
     banner |-> server_banner_upload_path(i, "b")]

Init ==
    /\ categories = [k \in CategoryIds |-> [name |-> CategoryNames[k], icon |-> NoFile]]
    /\ servers = [i \in ServerIds |-> InitialServer(i)]
    /\ files = UNION {{servers[i].icon, servers[i].banner} : i \in ServerIds}
    /\ cache = NotFetched
    /\ request = NoRequest
    /\ response = NoResponse
    /\ raised = ""

\* One request is answered at a time (the spec's synchronous, single-request
\* model), and the store is written between requests.
Next ==
    \/ Idle /\ \E req \in Requests : List(req)
    \/ Close
    \/ Idle /\ \E i \in ServerIds, u \in Users : MemberAdd(i, u)
    \/ Idle /\ \E i \in ServerIds, u \in Users : MemberRemove(i, u)
    \/ Idle /\ \E i \in ServerIds : ServerDelete(i)

Spec == Init /\ [][Next]_vars

\* The writes of the models: save() and delete() of Category and Server.
Lifecycle ==
    \/ \E id \in {0} \cup CategoryIds, k \in CategoryIds, input \in ImageInputs :
          CategorySave(id, CategoryNames[k], input)
    \/ \E k \in CategoryIds : CategoryDelete(k)
    \/ \E id \in {0} \cup ServerIds, icon_input \in ImageInputs,
          banner_input \in ImageInputs :
          ServerSave(id, icon_input, banner_input)
    \/ \E i \in ServerIds : ServerDelete(i)

LifecycleSpec == Init /\ [][Lifecycle]_vars

-----------------------------------------------------------------------------
(* The vocabulary of the claims, stated from the specification and not     *)
(* from the handler.                                                       *)

\* A request has been answered and its response not yet sent.
Answered == request # NoRequest

\* The request was answered with a listing.
Listed == Answered /\ response.exc = ""

\* by_user=true from a caller who is not authenticated.
Unauthenticated(req) == req.by_user = StrTrue /\ ~req.user.is_authenticated

\* A parameter counts as supplied when it has a non-empty value.
Supplied(v) == v # None /\ v # <<>>

\* A supplied value that reads as a decimal integer.
Numeric(v) == Supplied(v) /\ IsIntLiteral(v)

\* The servers of the data store that satisfy the category and by_user
\* predicates of req.
Matches(req, i) ==
    /\ i \in DOMAIN servers
    /\ Supplied(req.category) =>
           categories[servers[i].category].name = req.category
    /\ req.by_user = StrTrue => req.user.id \in servers[i].member

Matching(req) == {i \in ServerIds : Matches(req, i)}

\* The matching servers in the order of the listing.
MatchingSeq(req) == LET M(i) == Matches(req, i) IN SelectSeq(PkOrder, M)

\* The first qty matching servers (all of them without qty).
Window(req) ==
    IF Numeric(req.qty) THEN Prefix(MatchingSeq(req), IntOf(req.qty))
    ELSE MatchingSeq(req)

InSeq(x, seq) == \E k \in 1..Len(seq) : seq[k] = x

\* The servers the specification's stages 1-6 leave for req.
Expected(req) ==
    IF Numeric(req.by_serverid)
    THEN LET IsIt(i) == i = IntOf(req.by_serverid)
         IN SelectSeq(Window(req), IsIt)
    ELSE Window(req)

\* The ids of the servers of a response, in its order.
Ids(data) == [k \in 1..Len(data) |-> data[k].id]

IdSet(data) == {data[k].id : k \in 1..Len(data)}

-----------------------------------------------------------------------------
(* The claims.                                                             *)

\* C1: a listing request that supplies only category and/or by_user=true (with
\* an authenticated caller) returns exactly the servers of the data store that
\* satisfy the supplied predicates; with neither, every server.
C1_ExactlyTheMatchingServers ==
    (/\ Answered
     /\ request.qty = None /\ request.by_serverid = None
     /\ request.with_num_members = None
     /\ request.by_user \in {None, StrTrue}
     /\ ~Unauthenticated(request))
    => /\ response.exc = ""
       /\ IdSet(response.data) = Matching(request)

\* C2: by_user=true from an unauthenticated caller fails with
\* AuthenticationFailed and returns no server data, whatever the other
\* parameters are.
C2_ByUserNeedsAuthentication ==
    (Answered /\ Unauthenticated(request))
    => /\ response.exc = "AuthenticationFailed"
       /\ response.data = <<>>

\* C2's case: an unauthenticated by_user=true request with a malformed qty and
\* a malformed server id has been refused.
C2_Witness ==
    /\ Answered
    /\ Unauthenticated(request)
    /\ request.qty = <<"x">> /\ request.by_serverid = <<"x">>
    /\ Supplied(request.category)
    /\ response.exc = "AuthenticationFailed"

\* C3: with with_num_members=true, the count attached to each returned server
\* is the number of users in the server's full membership set, and the servers
\* returned are those the other filters select.
C3_CountsTheFullMembership ==
    (Listed /\ request.with_num_members = StrTrue)
    => /\ Ids(response.data) = Expected(request)
       /\ \A k \in 1..Len(response.data) :
              response.data[k].num_members
                  = Cardinality(servers[response.data[k].id].member)

\* C4: in a successful listing, each server carries the member-count field if
\* and only if with_num_members is exactly "true", and the field, when there,
\* is a nonnegative integer.
C4_CountFieldIffRequested ==
    Listed =>
        \A k \in 1..Len(response.data) :
            /\ ("num_members" \in DOMAIN response.data[k])
                   <=> (request.with_num_members = StrTrue)
            /\ "num_members" \in DOMAIN response.data[k]
                   => response.data[k].num_members \in Nat

\* C4's case: a listing with with_num_members=true whose first server has the
\* count of its two members.
C4_Witness ==
    /\ Listed
    /\ request.with_num_members = StrTrue
    /\ Len(response.data) > 0
    /\ "num_members" \in DOMAIN response.data[1]
    /\ response.data[1].num_members = 2

\* C5: with qty=N, N a positive integer, and no server-id filter, the response
\* holds the first N of the servers matching the category and by_user filters
\* (all of them when they are fewer).
C5_FirstQtyOfTheMatching ==
    (/\ Answered
     /\ Numeric(request.qty) /\ IntOf(request.qty) > 0
     /\ ~Supplied(request.by_serverid)
     /\ ~Unauthenticated(request))
    => /\ response.exc = ""
       /\ Ids(response.data) = Prefix(MatchingSeq(request), IntOf(request.qty))

C7_IdFilterAfterTruncation ==
    (/\ Answered
     /\ Numeric(request.qty) /\ IntOf(request.qty) > 0
     /\ Numeric(request.by_serverid)
     /\ ~Unauthenticated(request))
    => IF InSeq(IntOf(request.by_serverid), Window(request))
       THEN /\ response.exc = ""
            /\ Ids(response.data) = <<IntOf(request.by_serverid)>>
       ELSE /\ response.exc = "ValidationError"
            /\ response.detail = request.by_serverid

\* C8: a request whose qty is not an integer raises no error and is answered
\* as a successful listing (no other parameter of it being a cause of error).
C8_MalformedQtyIsPermitted ==
    (/\ Answered
     /\ Supplied(request.qty) /\ ~IsIntLiteral(request.qty)
     /\ ~Supplied(request.by_serverid)
     /\ ~Unauthenticated(request))
    => response.exc = ""

\* What the caller sees of a response: the listing, one of the two errors the
\* framework reports, or a server error for any other exception.
Seen(resp) ==
    IF resp.exc \in {"", "AuthenticationFailed", "ValidationError"} THEN resp
    ELSE [exc |-> "ServerError", data |-> <<>>, detail |-> None]

\* C9: the result of a request depends only on its parameters, its caller and
\* the data store: it is the result the handler gives when no request has
\* been answered before it.
C9_ResultDependsOnStoreOnly ==
    Answered =>
        Seen(response)
            = Seen(Respond(Narrow(request, NotFetched), request, NotFetched))

\* The rows that the class's queryset holds are those of the Server table.
CacheIsCurrent == cache.fetched => cache.rows = Fetch(ClassQueryset)

\* C1 and C5 fail only through the rows of an earlier request (C9): each holds
\* in every state where those rows are still the table's.
C1_UnlessCacheIsStale == CacheIsCurrent => C1_ExactlyTheMatchingServers

C5_UnlessCacheIsStale == CacheIsCurrent => C5_FirstQtyOfTheMatching

\* The files that a persisted Category or Server references.
Referenced ==
    ({categories[k].icon : k \in DOMAIN categories}
         \cup {servers[i].icon : i \in DOMAIN servers}
         \cup {servers[i].banner : i \in DOMAIN servers}) \ {NoFile}

\* C10: after any sequence of create, update and delete operations, the file
\* store holds no file that no persisted record references, and no persisted
\* record references a file that is not stored.
C10_FilesAreTheReferencedOnes ==
    /\ files \subseteq Referenced
    /\ Referenced \subseteq files

====
